---- MODULE Spec2Model ----
(***************************************************************************)
(* A model of the data-cleaner library: the fake header / fake row         *)
(* synthesizers of DataCleaner, its config resolution, and the file        *)
(* loader helpers (check_file_support, load_file, write_file).             *)
(*                                                                         *)
(* The library is single threaded: one call runs at a time.  The state is  *)
(* the frame of the current (or last) call, its outcome, and the state     *)
(* that outlives a call: the class-level default configs, the files on     *)
(* disk and the table held by the DataClass instance.                      *)
(*                                                                         *)
(* Python values of mixed type are encoded as records:                     *)
(*   an optional integer is [null |-> BOOLEAN, v |-> Int] (None has v = 0) *)
(*   an optional dict/list  [null |-> BOOLEAN, v |-> it] (None has <<>>)   *)
(*   a dict with insertion order is a sequence of [key, value] records     *)
(*   a str whose characters matter is a sequence of one-character strings  *)
(*   a reference is the index of its object in the heap                    *)
(***************************************************************************)
EXTENDS Integers, Sequences, FiniteSets, TLC

VARIABLES
    pc,         \* position of the running call: "idle", "outer", "inner", "done", "raised"
    frame,      \* arguments and locals of the current call, named as in the source
    result,     \* what the last finished call returned or raised
    heap,       \* the dicts, lists and rows the current call and its caller hold, by reference
    fs,         \* the files on disk: a set of [path, content], one per path
    data,       \* DataClass.data of the DataClass instance in use (None before it is made)
    DEFAULT_FILE_RANDOM_CONFIG,
    DEFAULT_LOAD_FILE_PARAM_CONFIG,
    DEFAULT_WRITE_FILE_PARAM_CONFIG

vars == <<pc, frame, result, heap, fs, data, DEFAULT_FILE_RANDOM_CONFIG,
          DEFAULT_LOAD_FILE_PARAM_CONFIG, DEFAULT_WRITE_FILE_PARAM_CONFIG>>

persistent == <<fs, data, DEFAULT_FILE_RANDOM_CONFIG,
                DEFAULT_LOAD_FILE_PARAM_CONFIG, DEFAULT_WRITE_FILE_PARAM_CONFIG>>

(***************************************************************************)
(* Bounds of the model.                                                    *)
(***************************************************************************)
\* largest explicit total_columns / total_rows argument tried
MaxTotal == 3
\* most entries of a caller-supplied default_headers map
MaxDefaultHeaders == 2
\* size of the word generator's vocabulary (Faker's is finite too)
NumWords == 3
\* how many entries of SUPPORTED_VALUE_TYPES random.choice is sampled over
NumChoices == 2

(***************************************************************************)
(* Python values                                                           *)
(***************************************************************************)
\* None where an int is expected
None == [null |-> TRUE, v |-> 0]

\* None where a dict or a list is expected
NoneObj == [null |-> TRUE, v |-> <<>>]

Some(x) == [null |-> FALSE, v |-> x]

\* Python truthiness of an optional int: None and 0 are falsy
TruthyInt(o) == ~o.null /\ o.v # 0

\* Python truthiness of an optional dict or list: None and the empty one are falsy
TruthyColl(o) == ~o.null /\ Len(o.v) # 0

Range(s) == {s[i] : i \in 1..Len(s)}

Min(a, b) == IF a <= b THEN a ELSE b

\* the sequences over S of length at most n
RECURSIVE SeqsUpTo(_, _)
SeqsUpTo(S, n) ==
    IF n = 0 THEN {<<>>}
    ELSE LET shorter == SeqsUpTo(S, n - 1)
         IN shorter \cup {Append(s, x) : s \in {t \in shorter : Len(t) = n - 1}, x \in S}

(***************************************************************************)
(* dict with insertion order                                               *)
(***************************************************************************)
Keys(d) == {d[i].key : i \in 1..Len(d)}

Values(d) == [i \in 1..Len(d) |-> d[i].value]

HasKey(d, k) == k \in Keys(d)

Get(d, k) == d[CHOOSE i \in 1..Len(d) : d[i].key = k].value

\* d[k] = v: replaces the value of an existing key in place, appends a new key
SetItem(d, k, v) ==
    IF HasKey(d, k)
    THEN [i \in 1..Len(d) |-> IF d[i].key = k THEN [key |-> k, value |-> v] ELSE d[i]]
    ELSE Append(d, [key |-> k, value |-> v])

IsDict(d) == \A i, j \in 1..Len(d) : d[i].key = d[j].key => i = j

(***************************************************************************)
(* main/utils/file_random/schema.py                                        *)
(***************************************************************************)
SUPPORTED_VALUE_TYPES ==
    <<"boolean", "color", "date", "email", "float", "int", "name",
      "password", "string", "username", "uuid">>

\* random.choice(SUPPORTED_VALUE_TYPES), sampled over the first NumChoices and the last entry
RandomChoiceOfTypes ==
    {SUPPORTED_VALUE_TYPES[i] :
        i \in (1..Min(NumChoices, Len(SUPPORTED_VALUE_TYPES))) \cup {Len(SUPPORTED_VALUE_TYPES)}}

\* random.randint(a, b): every integer of [a, b]
RandInt(a, b) == a..b

(***************************************************************************)
(* Faker: fake_generator.word() draws from a finite vocabulary             *)
(***************************************************************************)
WordList == <<"w1", "w2", "w3", "w4", "w5", "w6">>

Words == {WordList[i] : i \in 1..Min(NumWords, Len(WordList))}

(***************************************************************************)
(* Inputs of generate_fake_headers                                         *)
(***************************************************************************)
\* caller keys: one that the word generator can also draw, one that it cannot
CallerKeys == {"id", "w1"}

CallerTypes == {"uuid", "int"}

HeaderMaps ==
    {d \in SeqsUpTo([key : CallerKeys, value : CallerTypes], MaxDefaultHeaders) : IsDict(d)}

TotalArgs == {None} \cup {Some(n) : n \in (0 - 1)..MaxTotal}

DefaultHeadersArgs == {NoneObj} \cup {Some(d) : d \in HeaderMaps}

NoFrame == [op |-> "none"]

NoResult == [status |-> "none"]

Returned(x) == [status |-> "ok", value |-> x]

Raised(e, x) == [status |-> "raised", error |-> e, detail |-> x]

(***************************************************************************)
(* Objects.  Dicts, lists and rows are mutable and are passed by reference:*)
(* heap.dicts, heap.lists and heap.rows hold them, a reference is an index *)
(* into one of the three, and a list holds references to its rows.         *)
(***************************************************************************)
EmptyHeap == [dicts |-> <<>>, lists |-> <<>>, rows |-> <<>>]

\* a new dict; its reference is LastDict of the heap that results
NewDict(h, d) == [h EXCEPT !.dicts = Append(@, d)]

LastDict(h) == Len(h.dicts)

\* new rows, one per entry of cells; their references are NewRowRefs(h, cells) of the heap before
NewRows(h, cells) == [h EXCEPT !.rows = @ \o cells]

NewRowRefs(h, cells) == [i \in 1..Len(cells) |-> Len(h.rows) + i]

\* a new list of the rows referred to; its reference is LastList of the heap that results
NewList(h, refs) == [h EXCEPT !.lists = Append(@, refs)]

LastList(h) == Len(h.lists)

\* the rows a list holds, by value
RowsOf(h, list) == [i \in 1..Len(h.lists[list]) |-> h.rows[h.lists[list][i]]]

\* the dict or list a reference that may be None stands for
DictAt(h, ref) == IF ref.null THEN NoneObj ELSE Some(h.dicts[ref.v])

ListAt(h, ref) == IF ref.null THEN NoneObj ELSE Some(h.lists[ref.v])

(***************************************************************************)
(* main/utils/file_random/helpers.py: generate_fake_headers                *)
(* The helper works in place on the dict it is handed                      *)
(* (frame.actual_headers, made by DataCleaner.generate_fake_headers) and   *)
(* returns that same dict.                                                 *)
(***************************************************************************)
\* lines 52-54 and 68: the needed count, and the return when nothing is needed
HelperGenerateFakeHeadersEnter(f, h) ==
    LET needed == f.default_total - Len(h.dicts[f.actual_headers])
        g == [f EXCEPT !.needed_count = needed]
    IN /\ heap' = h
       /\ IF needed > 0
          THEN /\ pc' = "outer"
               /\ frame' = g
               /\ result' = NoResult
          ELSE /\ pc' = "done"
               /\ frame' = g
               /\ result' = Returned(h.dicts[g.actual_headers])

\* an object made or picked by a step: the heap after the step and the reference
Made(h, ref) == [heap |-> h, ref |-> ref]

\* `default_headers or {}` in place of the copy: the helper is handed the caller's own dict
AliasHeaders(h, default_headers) ==
    IF TruthyColl(DictAt(h, default_headers))
    THEN Made(h, default_headers.v)
    ELSE Made(NewDict(h, <<>>), LastDict(h) + 1)

\* lines 112-114, {**default_headers} if default_headers else {}: a new dict in
\* either case; default_headers is the caller's reference or None
CopyHeaders(h, default_headers) ==
    IF TruthyColl(DictAt(h, default_headers))
    THEN Made(NewDict(h, h.dicts[default_headers.v]), LastDict(h) + 1)
    ELSE Made(NewDict(h, <<>>), LastDict(h) + 1)

\* the heap as the caller of generate_fake_headers has it: its dict, unless it passes None
CallerOfHeaders(default_headers) ==
    IF default_headers.null THEN EmptyHeap ELSE NewDict(EmptyHeap, default_headers.v)

\* DataCleaner.generate_fake_headers: the defaults, then the call of the helper
GenerateFakeHeaders(total_columns, default_headers) ==
    /\ pc = "idle"
    /\ \E drawn \in RandInt(0, 5) :
         LET caller == CallerOfHeaders(default_headers)
             default_headers_ref == IF default_headers.null THEN None ELSE Some(LastDict(caller))
             actual_headers == CopyHeaders(caller, default_headers_ref)
             default_total == IF TruthyInt(total_columns) THEN total_columns.v ELSE drawn
         IN HelperGenerateFakeHeadersEnter(
                [op |-> "generate_fake_headers",
                 total_columns |-> total_columns,
                 default_headers |-> default_headers,
                 default_headers_ref |-> default_headers_ref,
                 actual_headers |-> actual_headers.ref,
                 default_total |-> default_total,
                 needed_count |-> 0,
                 key |-> "",
                 changed |-> FALSE], actual_headers.heap)
    /\ UNCHANGED persistent

\* line 55-57: the outer loop draws a candidate key
DrawKey ==
    /\ pc = "outer"
    /\ frame.op = "generate_fake_headers"
    /\ \E w \in Words : frame' = [frame EXCEPT !.key = w]
    /\ pc' = "inner"
    /\ UNCHANGED <<result, heap, persistent>>

\* line 59-60: the candidate is a key already: draw again
RedrawKey ==
    /\ pc = "inner"
    /\ frame.op = "generate_fake_headers"
    /\ HasKey(heap.dicts[frame.actual_headers], frame.key)
    /\ \E w \in Words : frame' = [frame EXCEPT !.key = w]
    /\ UNCHANGED <<pc, result, heap, persistent>>

\* line 62-68: the key is new: give it a type, count it, loop or return
InsertKey ==
    /\ pc = "inner"
    /\ frame.op = "generate_fake_headers"
    /\ ~HasKey(heap.dicts[frame.actual_headers], frame.key)
    /\ \E value \in RandomChoiceOfTypes :
         LET hs == SetItem(heap.dicts[frame.actual_headers], frame.key, value)
             n == frame.needed_count - 1
         IN /\ heap' = [heap EXCEPT !.dicts[frame.actual_headers] = hs]
            /\ frame' = [frame EXCEPT !.needed_count = n]
            /\ IF n # 0
               THEN pc' = "outer" /\ result' = NoResult
               ELSE pc' = "done" /\ result' = Returned(hs)
    /\ UNCHANGED persistent

\* the caller changes the dict it was returned: result[key] = ..., or result.clear()
ChangeReturnedHeaders ==
    /\ pc = "done"
    /\ frame.op = "generate_fake_headers"
    /\ ~frame.changed
    /\ LET returned == frame.actual_headers
       IN \/ \E k \in Keys(heap.dicts[returned]) \cup {"added"} :
               heap' = [heap EXCEPT !.dicts[returned] = SetItem(@, k, "changed")]
          \/ heap' = [heap EXCEPT !.dicts[returned] = <<>>]
    /\ frame' = [frame EXCEPT !.changed = TRUE]
    /\ UNCHANGED <<pc, result, persistent>>

(***************************************************************************)
(* main/classes/data_cleaner.py: config resolution                         *)
(***************************************************************************)
\* the two item lists put end to end, an overridden key kept twice
MergeAppend(a, b) == a \o b

\* {**a, **b}: a's entries in order, each key of b set in turn
RECURSIVE Merge(_, _)
Merge(a, b) ==
    IF Len(b) = 0 THEN a
    ELSE Merge(SetItem(a, b[1].key, b[1].value), Tail(b))

\* `config or {}`
OrEmpty(config) == IF TruthyColl(config) THEN config.v ELSE <<>>

\* DataCleaner.get_file_random_config, reading the class default `defaults`
GetFileRandomConfig(defaults, config) == Merge(defaults, OrEmpty(config))

\* defaults.update(config or {}): the class-level dict takes the override
AfterUpdate(defaults, config) == Merge(defaults, OrEmpty(config))

\* the class-level dict `defaults` after {**defaults, **(config or {})} was
\* evaluated: the display unpacks it into a new dict and writes nothing to it
AfterUnpacking(defaults, config) == defaults

\* the class-level dicts other than the one a call reads
BesidesRandom == <<DEFAULT_LOAD_FILE_PARAM_CONFIG, DEFAULT_WRITE_FILE_PARAM_CONFIG>>

BesidesLoad == <<DEFAULT_FILE_RANDOM_CONFIG, DEFAULT_WRITE_FILE_PARAM_CONFIG>>

BesidesWrite == <<DEFAULT_FILE_RANDOM_CONFIG, DEFAULT_LOAD_FILE_PARAM_CONFIG>>

ConfigFields == <<"decimal_places", "min_int", "max_int">>

\* values a caller puts in an override: null, zero, and two other integers
ConfigValues == {None, Some(0), Some(2), Some(5)}

\* the override dicts: every subset of the fields, in the order of ConfigFields
RECURSIVE ConfigDictsFrom(_)
ConfigDictsFrom(i) ==
    IF i > Len(ConfigFields) THEN {<<>>}
    ELSE LET rest == ConfigDictsFrom(i + 1)
         IN rest \cup {<<[key |-> ConfigFields[i], value |-> v]>> \o d :
                          v \in ConfigValues, d \in rest}

ConfigArgs == {NoneObj} \cup {Some(d) : d \in ConfigDictsFrom(1)}

\* the call of DataCleaner.get_file_random_config(config)
CallGetFileRandomConfig ==
    /\ pc = "idle"
    /\ \E config \in ConfigArgs :
         /\ frame' = [op |-> "get_file_random_config", config |-> config]
         /\ result' = Returned(GetFileRandomConfig(DEFAULT_FILE_RANDOM_CONFIG, config))
         /\ DEFAULT_FILE_RANDOM_CONFIG' = AfterUnpacking(DEFAULT_FILE_RANDOM_CONFIG, config)
    /\ pc' = "done"
    /\ UNCHANGED <<heap, fs, data, BesidesRandom>>

\* DataCleaner.get_file_random_config(resolved), resolved being what the call
\* before returned for frame.config
ResolveResolved ==
    /\ pc = "done"
    /\ frame.op = "get_file_random_config"
    /\ frame' = [op |-> "get_file_random_config again",
                 config |-> frame.config,
                 resolved |-> result.value]
    /\ result' = Returned(GetFileRandomConfig(DEFAULT_FILE_RANDOM_CONFIG, Some(result.value)))
    /\ DEFAULT_FILE_RANDOM_CONFIG' =
          AfterUnpacking(DEFAULT_FILE_RANDOM_CONFIG, Some(result.value))
    /\ UNCHANGED <<pc, heap, fs, data, BesidesRandom>>

(***************************************************************************)
(* main/utils/file_random/helpers.py: generate_fake_value                  *)
(* A generated value is [tag |-> its Python kind, n |-> Int]: a bool is 0  *)
(* or 1, an int is itself, and a float or a Faker string is abstracted to  *)
(* one representative, 0.                                                  *)
(***************************************************************************)
Value(tag, n) == [tag |-> tag, n |-> n]

\* random.randint(a, b) sampled at its two ends (both are inclusive)
RandIntEnds(a, b) == {a, b}

\* what generate_fake_value(value_type, config) can do: raise, or return one of values
GenerateFakeValue(value_type, config) ==
    IF value_type = "boolean" THEN [raises |-> "none", values |-> {Value("bool", 0), Value("bool", 1)}]
    ELSE IF value_type = "float"
    THEN \* round(random.random(), None) is an int, round(x, n) a float; neither raises
         IF Get(config, "decimal_places").null
         THEN [raises |-> "none", values |-> {Value("int", 0), Value("int", 1)}]
         ELSE [raises |-> "none", values |-> {Value("float", 0)}]
    ELSE IF value_type = "int"
    THEN LET lo == Get(config, "min_int")
             hi == Get(config, "max_int")
         IN IF lo.null \/ hi.null
            THEN [raises |-> "TypeError", values |-> {}]       \* randint(None, b)
            ELSE IF lo.v > hi.v
            THEN [raises |-> "ValueError", values |-> {}]      \* empty range for randrange
            ELSE [raises |-> "none", values |-> {Value("int", n) : n \in RandIntEnds(lo.v, hi.v)}]
    ELSE IF value_type \in {"color", "date", "email", "name", "password", "string", "username"}
    THEN [raises |-> "none", values |-> {Value("str", 0)}]
    ELSE [raises |-> "none", values |-> {Value("uuid", 0)}]

\* DataCleaner.generate_fake_value(value_type, config): the value generator
\* run under the config resolved from the override
CallOfGenerateFakeValue(value_type, config) ==
    /\ pc = "idle"
    /\ LET resolved == GetFileRandomConfig(DEFAULT_FILE_RANDOM_CONFIG, config)
           g == GenerateFakeValue(value_type, resolved)
       IN /\ frame' = [op |-> "generate_fake_value", value_type |-> value_type,
                       config |-> config, resolved |-> resolved]
          /\ IF g.raises # "none"
             THEN /\ result' = Raised(g.raises, "random.randint")
                  /\ pc' = "raised"
             ELSE /\ \E v \in g.values : result' = Returned(v)
                  /\ pc' = "done"
    /\ DEFAULT_FILE_RANDOM_CONFIG' = AfterUnpacking(DEFAULT_FILE_RANDOM_CONFIG, config)
    /\ UNCHANGED <<heap, fs, data, BesidesRandom>>

(***************************************************************************)
(* generate_fake_rows                                                      *)
(***************************************************************************)
\* the comprehension run over reversed(header_types): cells in the opposite order
RECURSIVE FakeRowsReversed(_, _)
FakeRowsReversed(header_types, config) ==
    IF Len(header_types) = 0 THEN {<<>>}
    ELSE {r \o <<x>> : x \in GenerateFakeValue(header_types[1], config).values,
                       r \in FakeRowsReversed(Tail(header_types), config)}

\* the rows one list comprehension over header_types can build
RECURSIVE FakeRows(_, _)
FakeRows(header_types, config) ==
    IF Len(header_types) = 0 THEN {<<>>}
    ELSE {<<x>> \o r : x \in GenerateFakeValue(header_types[1], config).values,
                       r \in FakeRows(Tail(header_types), config)}

\* the first error the comprehension runs into, "none" when there is none
RECURSIVE FirstRaise(_, _)
FirstRaise(header_types, config) ==
    IF Len(header_types) = 0 THEN "none"
    ELSE LET g == GenerateFakeValue(header_types[1], config)
         IN IF g.raises # "none" THEN g.raises ELSE FirstRaise(Tail(header_types), config)

\* helpers.generate_fake_rows: what it returns or raises (lines 140-153)
HelperGenerateFakeRows(headers, default_rows, total_rows, value_config) ==
    LET needed_count == total_rows - Len(default_rows)
        header_types == Values(headers)
    IN IF needed_count > 0
       THEN IF FirstRaise(header_types, value_config) # "none"
            THEN {Raised(FirstRaise(header_types, value_config), "random.randint")}
            ELSE {Returned(default_rows \o new_rows) :
                    new_rows \in [1..needed_count -> FakeRows(header_types, value_config)]}
       ELSE {Returned(default_rows)}

\* [*default_rows] if default_rows else []: a new list of the caller's own rows
ShallowCopyRows(h, default_rows) ==
    IF TruthyColl(ListAt(h, default_rows))
    THEN Made(NewList(h, h.lists[default_rows.v]), LastList(h) + 1)
    ELSE Made(NewList(h, <<>>), LastList(h) + 1)

\* line 190, [[*row] for row in default_rows] if default_rows else []: a new list
\* of new rows in either case; default_rows is the caller's reference or None
CopyRows(h, default_rows) ==
    IF TruthyColl(ListAt(h, default_rows))
    THEN LET cells == RowsOf(h, default_rows.v)
         IN Made(NewList(NewRows(h, cells), NewRowRefs(h, cells)), LastList(h) + 1)
    ELSE Made(NewList(h, <<>>), LastList(h) + 1)

\* line 151, default_rows.extend(new_rows): the list grows in place by new rows
ExtendRows(h, list, new_rows) ==
    [NewRows(h, new_rows) EXCEPT !.lists[list] = @ \o NewRowRefs(h, new_rows)]

\* the heap as the caller of generate_fake_rows has it: its headers dict, and
\* its list of rows unless it passes None
CallerOfRows(headers, default_rows) ==
    LET h == NewDict(EmptyHeap, headers)
    IN IF default_rows.null THEN h
       ELSE NewList(NewRows(h, default_rows.v), NewRowRefs(h, default_rows.v))

\* DataCleaner.generate_fake_rows (lines 189-198); the helper reads the headers,
\* extends the list it is handed in place and returns that list
GenerateFakeRows(headers, default_rows, total_rows, value_config) ==
    /\ pc = "idle"
    /\ \E drawn \in RandInt(1, 5) :
         LET caller == CallerOfRows(headers, default_rows)
             headers_ref == LastDict(caller)
             default_rows_ref == IF default_rows.null THEN None ELSE Some(LastList(caller))
             config_rows == CopyRows(caller, default_rows_ref)
             handed == RowsOf(config_rows.heap, config_rows.ref)
             default_total == IF TruthyInt(total_rows) THEN total_rows.v ELSE drawn
             config == GetFileRandomConfig(DEFAULT_FILE_RANDOM_CONFIG, value_config)
         IN \E r \in HelperGenerateFakeRows(
                         caller.dicts[headers_ref], handed, default_total, config) :
              /\ frame' = [op |-> "generate_fake_rows",
                           headers |-> headers,
                           default_rows |-> default_rows,
                           total_rows |-> total_rows,
                           value_config |-> value_config,
                           headers_ref |-> headers_ref,
                           default_rows_ref |-> default_rows_ref,
                           config_rows |-> config_rows.ref,
                           default_total |-> default_total,
                           config |-> config,
                           changed |-> FALSE]
              /\ result' = r
              /\ heap' = IF r.status = "ok"
                         THEN ExtendRows(config_rows.heap, config_rows.ref,
                                         SubSeq(r.value, Len(handed) + 1, Len(r.value)))
                         ELSE config_rows.heap
              /\ pc' = IF r.status = "ok" THEN "done" ELSE "raised"
    /\ DEFAULT_FILE_RANDOM_CONFIG' = AfterUnpacking(DEFAULT_FILE_RANDOM_CONFIG, value_config)
    /\ UNCHANGED <<fs, data, BesidesRandom>>

\* the caller changes the list it was returned: result.append(row),
\* result.pop(), or result[i].append(value) on one of its rows
ChangeReturnedRows ==
    /\ pc = "done"
    /\ frame.op = "generate_fake_rows"
    /\ ~frame.changed
    /\ LET returned == frame.config_rows
       IN \/ heap' = ExtendRows(heap, returned, <<<<Value("str", 1)>>>>)
          \/ /\ Len(heap.lists[returned]) > 0
             /\ heap' = [heap EXCEPT !.lists[returned] = SubSeq(@, 1, Len(@) - 1)]
          \/ \E i \in 1..Len(heap.lists[returned]) :
               heap' = [heap EXCEPT !.rows[heap.lists[returned][i]] = Append(@, Value("str", 1))]
    /\ frame' = [frame EXCEPT !.changed = TRUE]
    /\ UNCHANGED <<pc, result, persistent>>

\* most rows of a caller-supplied default_rows list
MaxDefaultRows == 2

\* header maps handed to generate_fake_rows, the empty map included
RowHeaderMaps ==
    {<<>>,
     <<[key |-> "a", value |-> "int"]>>,
     <<[key |-> "a", value |-> "int"], [key |-> "b", value |-> "boolean"]>>,
     <<[key |-> "b", value |-> "boolean"], [key |-> "c", value |-> "string"]>>}

\* caller rows: one of two cells, one of a single cell
CallerRows == {<<Value("int", 1), Value("bool", 1)>>, <<Value("int", 7)>>}

DefaultRowsArgs == {NoneObj} \cup {Some(rows) : rows \in SeqsUpTo(CallerRows, MaxDefaultRows)}

D(k, v) == <<[key |-> k, value |-> v]>>

\* value_config overrides: none, empty, a narrowed range, min_int > max_int, a null field
ValueConfigArgs ==
    {NoneObj, Some(<<>>),
     Some(D("min_int", Some(2)) \o D("max_int", Some(5))),
     Some(D("min_int", Some(5)) \o D("max_int", Some(2))),
     Some(D("decimal_places", Some(0)) \o D("max_int", None))}

CallGenerateFakeRows ==
    \E h \in RowHeaderMaps, d \in DefaultRowsArgs, t \in TotalArgs, c \in ValueConfigArgs :
        GenerateFakeRows(h, d, t, c)

(***************************************************************************)
(* str, character by character                                             *)
(***************************************************************************)
UpperLetters ==
    <<"A", "B", "C", "D", "E", "F", "G", "H", "I", "J", "K", "L", "M",
      "N", "O", "P", "Q", "R", "S", "T", "U", "V", "W", "X", "Y", "Z">>

LowerLetters ==
    <<"a", "b", "c", "d", "e", "f", "g", "h", "i", "j", "k", "l", "m",
      "n", "o", "p", "q", "r", "s", "t", "u", "v", "w", "x", "y", "z">>

LowerChar(c) ==
    IF \E i \in 1..Len(UpperLetters) : UpperLetters[i] = c
    THEN LowerLetters[CHOOSE i \in 1..Len(UpperLetters) : UpperLetters[i] = c]
    ELSE c

\* str.lower()
Lower(str) == [i \in 1..Len(str) |-> LowerChar(str[i])]

\* str.removeprefix(prefix) for a one-character prefix
RemovePrefix(str, prefix) ==
    IF Len(str) > 0 /\ str[1] = prefix THEN Tail(str) ELSE str

\* str.split(sep) for a one-character sep: the pieces between the separators
RECURSIVE SplitFrom(_, _, _, _)
SplitFrom(str, sep, i, piece) ==
    IF i > Len(str) THEN <<piece>>
    ELSE IF str[i] = sep THEN <<piece>> \o SplitFrom(str, sep, i + 1, <<>>)
    ELSE SplitFrom(str, sep, i + 1, Append(piece, str[i]))

Split(str, sep) == SplitFrom(str, sep, 1, <<>>)

\* sep.join(pieces)
RECURSIVE Join(_, _)
Join(pieces, sep) ==
    IF Len(pieces) = 0 THEN <<>>
    ELSE IF Len(pieces) = 1 THEN pieces[1]
    ELSE pieces[1] \o <<sep>> \o Join(Tail(pieces), sep)

\* str.rfind(c), 1-based; 0 when c is not in str
RFind(str, c) ==
    IF \E i \in 1..Len(str) : str[i] = c
    THEN CHOOSE i \in 1..Len(str) : str[i] = c /\ \A j \in (i + 1)..Len(str) : str[j] # c
    ELSE 0

Digits == <<"0", "1", "2", "3", "4", "5", "6", "7", "8", "9">>

IsDigit(c) == \E i \in 1..Len(Digits) : Digits[i] = c

DigitValue(c) == (CHOOSE i \in 1..Len(Digits) : Digits[i] = c) - 1

\* str(n) of a natural number
RECURSIVE FormatInt(_)
FormatInt(n) ==
    IF n < 10 THEN <<Digits[n + 1]>>
    ELSE Append(FormatInt(n \div 10), Digits[(n % 10) + 1])

\* int(str) of a string of digits
RECURSIVE ParseInt(_)
ParseInt(str) ==
    IF Len(str) = 0 THEN 0
    ELSE 10 * ParseInt(SubSeq(str, 1, Len(str) - 1)) + DigitValue(str[Len(str)])

IsDigits(str) == Len(str) > 0 /\ \A i \in 1..Len(str) : IsDigit(str[i])

(***************************************************************************)
(* pathlib: Path(path).name and Path(path).suffix                          *)
(***************************************************************************)
\* the components of a path: empty ones and "." are dropped when the path is parsed
PathParts(path) ==
    SelectSeq(Split(path, "/"), LAMBDA part : part # <<>> /\ part # <<".">>)

\* Path(path).name: the last component, "" when there is none
PathName(path) ==
    LET parts == PathParts(path)
    IN IF Len(parts) = 0 THEN <<>> ELSE parts[Len(parts)]

\* Path(path).suffix: from the last dot of the name on, unless that dot is the
\* first or the last character of the name
PathSuffix(path) ==
    LET name == PathName(path)
        i == RFind(name, ".")
    IN IF 1 < i /\ i < Len(name) THEN SubSeq(name, i, Len(name)) ELSE <<>>

(***************************************************************************)
(* main/utils/file-loader/schema.py, main/utils/file_loader/helpers.py     *)
(***************************************************************************)
CSV_EXT == <<"c", "s", "v">>

JSON_EXT == <<"j", "s", "o", "n">>

TEXT_EXT == <<"t", "e", "x", "t">>

SUPPORTED_FILE_TYPES == <<CSV_EXT, JSON_EXT, TEXT_EXT>>

\* the extension check_file_support works with (line 77)
FileExtension(path) == RemovePrefix(Lower(PathSuffix(path)), ".")

UnsupportedFileType == "ValueError: The file type is not supported"

\* check_file_support without .lower(): the extension compared as written
CheckFileSupportCaseSensitive(path) ==
    LET file_extension == RemovePrefix(PathSuffix(path), ".")
    IN IF file_extension \notin Range(SUPPORTED_FILE_TYPES)
       THEN Raised(UnsupportedFileType, file_extension)
       ELSE Returned(file_extension)

\* check_file_support(path): the supported type, or the ValueError naming the extension
CheckFileSupport(path) ==
    LET file_extension == FileExtension(path)
    IN IF file_extension \notin Range(SUPPORTED_FILE_TYPES)
       THEN Raised(UnsupportedFileType, file_extension)
       ELSE Returned(file_extension)

\* dict.get(key, default)
GetOr(d, k, default) == IF HasKey(d, k) THEN Get(d, k) ELSE default

\* {**config} if config else {}
CopyDict(config) == IF Len(config) # 0 THEN [i \in 1..Len(config) |-> config[i]] ELSE <<>>

(***************************************************************************)
(* pandas: a DataFrame with a RangeIndex is [columns, rows]; a cell is     *)
(* [t |-> "int" or "str", s |-> its text].  Column names are distinct and  *)
(* not empty; the text of a cell is not empty and holds no delimiter,      *)
(* quote or line break, so to_csv quotes nothing.                          *)
(***************************************************************************)
Table(columns, rows) == [columns |-> columns, rows |-> rows]

Cell(t, str) == [t |-> t, s |-> str]

EmptyTable == Table(<<>>, <<>>)

CsvFile(lines) == [kind |-> "csv", orient |-> "", lines |-> lines, table |-> EmptyTable]

JsonFile(orient, table) == [kind |-> "json", orient |-> orient, lines |-> <<>>, table |-> table]

\* DataFrame.to_csv(path, sep=sep): index=True is the default, so every line
\* starts with the index: an empty name in the header line, the row label below
ToCsv(table, sep) ==
    <<Join(<<<<>>>> \o table.columns, sep)>>
    \o [i \in 1..Len(table.rows) |->
          Join(<<FormatInt(i - 1)>> \o [j \in 1..Len(table.rows[i]) |-> table.rows[i][j].s], sep)]

\* the name read_csv gives the i-th (0-based) column when its header field is empty
Unnamed(i) == <<"U", "n", "n", "a", "m", "e", "d", ":", " ">> \o FormatInt(i)

\* pd.read_csv(path, delimiter=delimiter): the first line names the columns, a
\* column of digit strings becomes an int column, any other keeps its text
ReadCsv(lines, delimiter) ==
    LET header == Split(lines[1], delimiter)
        body == [i \in 1..(Len(lines) - 1) |-> Split(lines[i + 1], delimiter)]
        IsIntColumn(j) == Len(body) > 0 /\ \A i \in 1..Len(body) : IsDigits(body[i][j])
    IN Table([j \in 1..Len(header) |-> IF header[j] = <<>> THEN Unnamed(j - 1) ELSE header[j]],
             [i \in 1..Len(body) |->
                [j \in 1..Len(header) |->
                    IF IsIntColumn(j)
                    THEN Cell("int", FormatInt(ParseInt(body[i][j])))
                    ELSE Cell("str", body[i][j])]])

\* whether open(path) can give a file: a path that ends in "/" names a directory.
\* Every directory a path goes through is taken to exist.
CanOpen(path) == Len(path) > 0 /\ path[Len(path)] # "/"

HasFile(files, path) == \E f \in files : f.path = path

FileAt(files, path) == (CHOOSE f \in files : f.path = path).content

\* helpers.load_file(path, config): lines 97-112
HelperLoadFile(files, path, config) ==
    LET actual_config == CopyDict(config)
        actual_config_delimiter == GetOr(actual_config, "delimiter", ",")
        actual_config_orient == GetOr(actual_config, "orient", "records")
        file_extension == CheckFileSupport(path)
    IN IF file_extension.status # "ok" THEN file_extension
       ELSE IF ~CanOpen(path) THEN Raised("IsADirectoryError", <<>>)
       ELSE IF ~HasFile(files, path) THEN Raised("FileNotFoundError", <<>>)
       ELSE IF file_extension.value = JSON_EXT
       THEN \* pd.read_json(path, orient): the table, when read under the orient it was written with
            IF FileAt(files, path).orient = actual_config_orient
            THEN Returned(FileAt(files, path).table)
            ELSE Raised("ValueError", <<>>)
       ELSE Returned(ReadCsv(FileAt(files, path).lines, actual_config_delimiter))

\* helpers.write_file(path, data, config): lines 127-137; the file it leaves at path
HelperWriteFile(path, table, config) ==
    LET actual_config == CopyDict(config)
        actual_config_delimiter == GetOr(actual_config, "delimiter", ",")
        actual_config_orient == GetOr(actual_config, "orient", "records")
        file_path == CheckFileSupport(path)
    IN IF file_path.status # "ok" THEN file_path
       ELSE IF ~CanOpen(path) THEN Raised("IsADirectoryError", <<>>)
       ELSE IF file_path.value = JSON_EXT
       THEN Returned(JsonFile(actual_config_orient, table))
       ELSE Returned(CsvFile(ToCsv(table, actual_config_delimiter)))

\* most files the modelled disk holds
MaxFiles == 1

\* DataCleaner.load_file(path, config): lines 213-220
LoadFile(path, config) ==
    /\ pc = "idle"
    /\ LET default_config == Merge(DEFAULT_LOAD_FILE_PARAM_CONFIG, OrEmpty(config))
           loaded == HelperLoadFile(fs, path, default_config)
       IN /\ frame' = [op |-> "load_file", path |-> path, config |-> config,
                       default_config |-> default_config]
          /\ result' = loaded
          /\ pc' = IF loaded.status = "ok" THEN "done" ELSE "raised"
    /\ DEFAULT_LOAD_FILE_PARAM_CONFIG' = AfterUnpacking(DEFAULT_LOAD_FILE_PARAM_CONFIG, config)
    /\ UNCHANGED <<heap, fs, data, BesidesLoad>>

\* DataClass.write_file(path, config): lines 49-54
WriteFile(path, config) ==
    /\ pc = "idle"
    /\ ~data.null
    /\ LET default_config == Merge(DEFAULT_WRITE_FILE_PARAM_CONFIG, OrEmpty(config))
           written == HelperWriteFile(path, data.v, default_config)
       IN /\ frame' = [op |-> "write_file", path |-> path, config |-> config,
                       default_config |-> default_config]
          /\ IF written.status = "ok"
             THEN /\ Cardinality({f.path : f \in fs} \cup {path}) <= MaxFiles
                  /\ fs' = {f \in fs : f.path # path} \cup {[path |-> path, content |-> written.value]}
                  /\ result' = Returned(EmptyTable)
                  /\ pc' = "done"
             ELSE /\ fs' = fs
                  /\ result' = written
                  /\ pc' = "raised"
    /\ DEFAULT_WRITE_FILE_PARAM_CONFIG' = AfterUnpacking(DEFAULT_WRITE_FILE_PARAM_CONFIG, config)
    /\ UNCHANGED <<heap, data, BesidesWrite>>

\* DataClass(data): lines 38-39
NewDataClass(table) ==
    /\ pc = "idle"
    /\ data' = Some(table)
    /\ UNCHANGED <<pc, frame, result, heap, fs, DEFAULT_FILE_RANDOM_CONFIG,
                   DEFAULT_LOAD_FILE_PARAM_CONFIG, DEFAULT_WRITE_FILE_PARAM_CONFIG>>

(***************************************************************************)
(* Inputs of load_file and write_file                                      *)
(***************************************************************************)
\* paths are built as directory + stem + extension + trailer
PathDirs == {<<>>,
     <<"d", ".", "c", "s", "v", "/">>}

PathStems == {<<>>,
     <<"a">>}

PathExtensions ==
    {<<>>,
     <<".">>,
     <<".", "c", "s", "v">>,
     <<".", "C", "S", "V">>,
     <<".", "C", "s", "v">>,
     <<".", "j", "s", "o", "n">>,
     <<".", "J", "S", "O", "N">>,
     <<".", "t", "e", "x", "t">>,
     <<".", "t", "x", "t">>,
     <<".", "x", "m", "l">>,
     <<".", "c", "s">>,
     <<".", "c", "s", "v", "x">>,
     <<".", "t", "a", "r", ".", "j", "s", "o", "n">>}

PathTrailers == {<<>>,
     <<"/">>}

DataXml == <<"d", "a", "t", "a", ".", "x", "m", "l">>

TypePaths ==
    {d \o st \o e \o t : d \in PathDirs, st \in PathStems, e \in PathExtensions, t \in PathTrailers}
    \cup {DataXml}

TypeTables == {Table(<<<<"a">>>>, <<<<Cell("int", <<"1">>)>>>>)}

FileConfigArgs ==
    {NoneObj, Some(D("delimiter", ";")), Some(D("orient", "split"))}

\* most columns and most rows of a table that is written and read back
MaxColumns == 2

MaxRows == 2

ColumnNames == {<<"a">>, <<"b">>}

Cells == {Cell("int", <<"1">>), Cell("str", <<"x">>)}

\* the tables of 1..MaxColumns distinct columns and 0..MaxRows rows
Tables ==
    UNION {{Table(columns, rows) :
              rows \in SeqsUpTo([1..Len(columns) -> Cells], MaxRows)} :
           columns \in {c \in SeqsUpTo(ColumnNames, MaxColumns) :
                          Len(c) > 0 /\ \A i, j \in 1..Len(c) : c[i] = c[j] => i = j}}

RoundTripPath == <<"t", ".", "c", "s", "v">>

RoundTripConfigArgs == {NoneObj, Some(D("delimiter", ";"))}

CallNewDataClass(tables) == \E t \in tables : NewDataClass(t)

CallLoadFile(paths, configs) == \E p \in paths, c \in configs : LoadFile(p, c)

CallWriteFile(paths, configs) == \E p \in paths, c \in configs : WriteFile(p, c)

\* the caller takes what the call returned or raised; the frame is gone
Return ==
    /\ pc \in {"done", "raised"}
    /\ pc' = "idle"
    /\ frame' = NoFrame
    /\ result' = NoResult
    /\ heap' = EmptyHeap
    /\ UNCHANGED persistent

\* the class bodies' dict displays
FileRandomDefaults ==
    D("decimal_places", Some(3)) \o D("max_int", Some(10000)) \o D("min_int", Some(0))

LoadFileDefaults ==
    D("delimiter", ",") \o D("orient", "records") \o D("parse_dates", "[]")

WriteFileDefaults == D("delimiter", ",") \o D("orient", "records")

Init ==
    /\ pc = "idle"
    /\ frame = NoFrame
    /\ result = NoResult
    /\ heap = EmptyHeap
    /\ fs = {}
    /\ data = [null |-> TRUE, v |-> EmptyTable]
    /\ DEFAULT_FILE_RANDOM_CONFIG = FileRandomDefaults
    /\ DEFAULT_LOAD_FILE_PARAM_CONFIG = LoadFileDefaults
    /\ DEFAULT_WRITE_FILE_PARAM_CONFIG = WriteFileDefaults

CallGenerateFakeHeaders ==
    \E t \in TotalArgs, d \in DefaultHeadersArgs : GenerateFakeHeaders(t, d)

NextHeaders == CallGenerateFakeHeaders \/ DrawKey \/ RedrawKey \/ InsertKey \/ Return

SpecHeaders == Init /\ [][NextHeaders]_vars

NextRows == CallGenerateFakeRows \/ Return

SpecRows == Init /\ [][NextRows]_vars

\* both generators with a caller that goes on to change what it was returned
NextFrame ==
    \/ CallGenerateFakeHeaders \/ DrawKey \/ RedrawKey \/ InsertKey
    \/ ChangeReturnedHeaders
    \/ CallGenerateFakeRows
    \/ ChangeReturnedRows
    \/ Return

SpecFrame == Init /\ [][NextFrame]_vars

\* generate_fake_headers with totals up to one more than the vocabulary, under
\* fair draws: a word that can be drawn again and again is drawn in the end,
\* and a loop body that can run does run
LargeTotalArgs == {Some(n) : n \in 1..(NumWords + 1)}

CallGenerateFakeHeadersLarge ==
    \E t \in LargeTotalArgs, d \in DefaultHeadersArgs : GenerateFakeHeaders(t, d)

NextHeadersFair ==
    CallGenerateFakeHeadersLarge \/ DrawKey \/ RedrawKey \/ InsertKey \/ Return

DrawsWord(w) == (DrawKey \/ RedrawKey) /\ frame'.key = w

FairDraws == \A w \in Words : SF_vars(DrawsWord(w))

SpecHeadersFair ==
    Init /\ [][NextHeadersFair]_vars /\ FairDraws /\ WF_vars(InsertKey)

\* every public call, with every override config, in any order
CallsPaths == {RoundTripPath, DataXml}

NextCalls ==
    \/ CallGetFileRandomConfig
    \/ \E t \in {"int", "float", "boolean"}, c \in ValueConfigArgs : CallOfGenerateFakeValue(t, c)
    \/ \E c \in ValueConfigArgs :
          GenerateFakeRows(D("a", "int") \o D("b", "boolean"), NoneObj, Some(1), c)
    \/ \E t \in {None, Some(1)} : GenerateFakeHeaders(t, NoneObj)
    \/ DrawKey \/ RedrawKey \/ InsertKey
    \/ CallNewDataClass(TypeTables)
    \/ CallLoadFile(CallsPaths, FileConfigArgs)
    \/ CallWriteFile(CallsPaths, FileConfigArgs)
    \/ Return

SpecCalls == Init /\ [][NextCalls]_vars

\* the resolver applied to a config it resolved itself
NextResolveTwice == CallGetFileRandomConfig \/ ResolveResolved \/ Return

SpecResolveTwice == Init /\ [][NextResolveTwice]_vars

NextConfig == CallGetFileRandomConfig \/ Return

SpecConfig == Init /\ [][NextConfig]_vars

NextFileType ==
    \/ CallNewDataClass(TypeTables)
    \/ CallLoadFile(TypePaths, FileConfigArgs)
    \/ CallWriteFile(TypePaths, FileConfigArgs)
    \/ Return

SpecFileType == Init /\ [][NextFileType]_vars

NextRoundTrip ==
    \/ CallNewDataClass(Tables)
    \/ CallLoadFile({RoundTripPath}, RoundTripConfigArgs)
    \/ CallWriteFile({RoundTripPath}, RoundTripConfigArgs)
    \/ Return

SpecRoundTrip == Init /\ [][NextRoundTrip]_vars

(***************************************************************************)
(* Properties                                                              *)
(***************************************************************************)
\* number of entries of an optional dict or list (None counts as empty)
Count(o) == IF o.null THEN 0 ELSE Len(o.v)

\* the entries of an optional dict or list (None gives the empty one)
Items(o) == IF o.null THEN <<>> ELSE o.v

HeadersDone == pc = "done" /\ frame.op = "generate_fake_headers"

RowsDone == pc = "done" /\ frame.op = "generate_fake_rows"

\* C1: whenever total_columns >= count(default_headers) (0 with an empty map
\* included), generate_fake_headers returns a map of exactly total_columns
\* distinct column names that holds every pair of default_headers unchanged.
C1_HeadersReachTotal ==
    (/\ HeadersDone
     /\ ~frame.total_columns.null
     /\ frame.total_columns.v >= Count(frame.default_headers))
    => /\ Len(result.value) = frame.total_columns.v
       /\ IsDict(result.value)
       /\ Range(Items(frame.default_headers)) \subseteq Range(result.value)

\* C2: whenever total_columns <= count(default_headers) (zero and negative
\* included), generate_fake_headers returns a map equal to default_headers.
C2_HeadersDefaultsAsIs ==
    (/\ HeadersDone
     /\ ~frame.total_columns.null
     /\ frame.total_columns.v <= Count(frame.default_headers))
    => result.value = Items(frame.default_headers)

\* C3: whenever total_rows >= count(default_rows), generate_fake_rows returns
\* exactly total_rows rows, the first count(default_rows) of them the input rows
\* in order, and each of the others of length count(headers).
C3_RowsReachTotal ==
    (/\ RowsDone
     /\ ~frame.total_rows.null
     /\ frame.total_rows.v >= Count(frame.default_rows))
    => /\ Len(result.value) = frame.total_rows.v
       /\ SubSeq(result.value, 1, Count(frame.default_rows)) = Items(frame.default_rows)
       /\ \A i \in (Count(frame.default_rows) + 1)..Len(result.value) :
            Len(result.value[i]) = Len(frame.headers)

\* C4: whenever total_rows <= count(default_rows) (zero and negative included),
\* generate_fake_rows returns a list equal to default_rows.
C4_RowsDefaultsAsIs ==
    (/\ RowsDone
     /\ ~frame.total_rows.null
     /\ frame.total_rows.v <= Count(frame.default_rows))
    => result.value = Items(frame.default_rows)

\* the documented default of a config field (3, 0, 10000)
DocumentedDefault(field) ==
    IF field = "decimal_places" THEN Some(3)
    ELSE IF field = "min_int" THEN Some(0)
    ELSE Some(10000)

\* C5: get_file_random_config resolves each field on its own: a field present
\* and non-null in the override takes the override's value (0 included), an
\* absent or null field takes its default, so no field of the result is null.
C5_ConfigPerField ==
    (pc = "done" /\ frame.op = "get_file_random_config")
    => \A i \in 1..Len(ConfigFields) :
         LET field == ConfigFields[i]
             override == Items(frame.config)
         IN /\ HasKey(result.value, field)
            /\ ~Get(result.value, field).null
            /\ IF HasKey(override, field) /\ ~Get(override, field).null
               THEN Get(result.value, field) = Get(override, field)
               ELSE Get(result.value, field) = DocumentedDefault(field)

\* the final extension of a path: what follows the last dot of its last
\* component, when that dot has characters on both sides; empty otherwise
FinalExtension(path) ==
    LET name == PathName(path)
        dots == {k \in 2..(Len(name) - 1) :
                   name[k] = "." /\ \A j \in (k + 1)..Len(name) : name[j] # "."}
    IN IF dots = {} THEN <<>>
       ELSE SubSeq(name, (CHOOSE k \in dots : TRUE) + 1, Len(name))

FileCallEnded == pc \in {"done", "raised"} /\ frame.op \in {"load_file", "write_file"}

RefusedAsUnsupported == result.status = "raised" /\ result.error = UnsupportedFileType

\* C6: load_file and write_file accept a path exactly when its final extension,
\* compared case-insensitively, is csv, json or text; for every other extension
\* (the empty one included) they fail with the unsupported-file-type error that
\* carries the (lower-cased) extension, e.g. xml for data.xml.
C6_FileTypeByExtension ==
    FileCallEnded =>
        LET extension == Lower(FinalExtension(frame.path))
        IN IF extension \in {CSV_EXT, JSON_EXT, TEXT_EXT}
           THEN ~RefusedAsUnsupported
           ELSE RefusedAsUnsupported /\ result.detail = extension

\* C6 happens: loading data.xml has failed naming xml
C6_Witness ==
    /\ pc = "raised"
    /\ frame.op = "load_file"
    /\ frame.path = DataXml
    /\ RefusedAsUnsupported
    /\ result.detail = <<"x", "m", "l">>

\* the delimiter a call was given in its config
GivenDelimiter(config) == GetOr(OrEmpty(config), "delimiter", ",")

\* the file at the path just loaded is what write_file leaves there for the
\* table of the DataClass instance under delimiter ";"
LoadedWhatWasWritten ==
    /\ pc = "done"
    /\ frame.op = "load_file"
    /\ FileExtension(frame.path) = CSV_EXT
    /\ GivenDelimiter(frame.config) = ";"
    /\ ~data.null
    /\ HasFile(fs, frame.path)
    /\ FileAt(fs, frame.path) = CsvFile(ToCsv(data.v, ";"))

\* C7: a table written to a .csv path with delimiter ';' and loaded from that
\* path with delimiter ';' comes back with the same columns and the same cell
\* values (modulo type coercion: the texts agree), no column added or lost.
C7_CsvRoundTrip ==
    LoadedWhatWasWritten =>
        /\ result.value.columns = data.v.columns
        /\ Len(result.value.rows) = Len(data.v.rows)
        /\ \A i \in 1..Len(data.v.rows) :
             /\ Len(result.value.rows[i]) = Len(data.v.rows[i])
             /\ \A j \in 1..Len(data.v.rows[i]) :
                  result.value.rows[i][j].s = data.v.rows[i][j].s

\* C8: with total_columns omitted and no default headers, generate_fake_headers
\* returns a map of at least 1 and at most 5 columns.
C8_OmittedTotalIsOneToFive ==
    (HeadersDone /\ frame.total_columns.null /\ Count(frame.default_headers) = 0)
    => (1 <= Len(result.value) /\ Len(result.value) <= 5)

\* every field of a resolved or override config holds an integer
IntegerFields(config) == \A i \in 1..Len(config) : ~config[i].value.null

\* C9: generate_fake_rows is total: for supported tags and a value_config with
\* integer fields (min_int > max_int included) the call never ends in an error.
C9_RowsNeverRaise ==
    (frame.op = "generate_fake_rows" /\ IntegerFields(Items(frame.value_config)))
    => pc # "raised"

\* C10: every row generate_fake_rows returns, caller-supplied default rows
\* included, has exactly count(headers) values.
C10_EveryRowMatchesHeaders ==
    RowsDone => \A i \in 1..Len(result.value) : Len(result.value[i]) = Len(frame.headers)

\* the objects the caller of generate_fake_headers passed are as at the call
CallerHeadersKept ==
    (frame.op = "generate_fake_headers" /\ ~frame.default_headers_ref.null)
        => heap.dicts[frame.default_headers_ref.v] = frame.default_headers.v

\* the objects the caller of generate_fake_rows passed are as at the call: the
\* headers dict, the list of default rows and every row of it
CallerRowsKept ==
    frame.op = "generate_fake_rows"
        => /\ heap.dicts[frame.headers_ref] = frame.headers
           /\ ~frame.default_rows_ref.null =>
                 RowsOf(heap, frame.default_rows_ref.v) = frame.default_rows.v

\* C11: generate_fake_headers and generate_fake_rows leave the caller's
\* default_headers dict, headers dict, default_rows list and each of its rows
\* unchanged, during the call and after the caller changes what it was returned
C11_CallerObjectsUnchanged == CallerHeadersKept /\ CallerRowsKept

\* the caller passed one default row at least, got its list back and appended
\* a value to the first row of the result, which its own first row does not show
C11_Witness ==
    /\ RowsDone
    /\ frame.changed
    /\ ~frame.default_rows_ref.null
    /\ Len(frame.default_rows.v) > 0
    /\ Len(heap.lists[frame.config_rows]) = Len(result.value)
    /\ heap.rows[heap.lists[frame.config_rows][1]] = Append(frame.default_rows.v[1], Value("str", 1))
    /\ heap.rows[heap.lists[frame.default_rows_ref.v][1]] = frame.default_rows.v[1]

\* the rows of the result that the call generated: those after the default rows
GeneratedRows == {k \in 1..Len(result.value) : k > Count(frame.default_rows)}

\* what a cell must be for a type tag under the resolved config
CellFitsTag(cell, value_type, config) ==
    /\ cell \in GenerateFakeValue(value_type, config).values
    /\ value_type = "int" =>
          /\ cell.tag = "int"
          /\ Get(config, "min_int").v <= cell.n
          /\ cell.n <= Get(config, "max_int").v
    /\ value_type = "boolean" => cell.tag = "bool"

\* C12: in every generated row the value at position i is one the value
\* generator gives for the type of the i-th header in insertion order: for int
\* an integer in [min_int, max_int] of the resolved config, for boolean a boolean
C12_CellsFollowHeaderTypes ==
    RowsDone =>
        \A k \in GeneratedRows :
            /\ Len(result.value[k]) = Len(frame.headers)
            /\ \A i \in 1..Len(frame.headers) :
                 CellFitsTag(result.value[k][i], frame.headers[i].value, frame.config)

\* a generated row for the headers {a: int, b: boolean} under the default
\* config: the integer 10000 first, a boolean second
C12_Witness ==
    /\ RowsDone
    /\ frame.value_config.null
    /\ Values(frame.headers) = <<"int", "boolean">>
    /\ \E k \in GeneratedRows :
         /\ result.value[k][1] = Value("int", 10000)
         /\ result.value[k][2].tag = "bool"

ResolvedTwice == pc = "done" /\ frame.op = "get_file_random_config again"

\* C13: config resolution is idempotent: resolving a resolved config gives it
\* back, for every override, absent and null fields included
C13_ResolveIdempotent == ResolvedTwice => result.value = frame.resolved

\* an override with a null min_int, a max_int of 5 and no decimal_places,
\* resolved twice: the null and the 5 are both still there
C13_Witness ==
    /\ ResolvedTwice
    /\ frame.config = Some(D("min_int", None) \o D("max_int", Some(5)))
    /\ Get(result.value, "min_int") = None
    /\ Get(result.value, "max_int") = Some(5)
    /\ Get(result.value, "decimal_places") = Some(3)

\* the config a get_file_random_config call returned is the one the class
\* body's defaults give for its override, whatever was called before
ResolvedFromInitialDefaults ==
    (pc = "done" /\ frame.op = "get_file_random_config")
        => result.value = Merge(FileRandomDefaults, OrEmpty(frame.config))

\* C14: after any sequence of calls with any override configs the class-level
\* defaults hold their initial values, so the config resolved for an override
\* does not depend on the calls before
C14_DefaultsKeepInitialValues ==
    /\ DEFAULT_FILE_RANDOM_CONFIG = FileRandomDefaults
    /\ DEFAULT_LOAD_FILE_PARAM_CONFIG = LoadFileDefaults
    /\ DEFAULT_WRITE_FILE_PARAM_CONFIG = WriteFileDefaults
    /\ ResolvedFromInitialDefaults

\* a file was written under an override delimiter, and a later
\* generate_fake_value call ran under an override range and returned
C14_Witness ==
    /\ \E f \in fs : f.content.kind = "csv" /\ f.content.lines[1][1] = ";"
    /\ pc = "done"
    /\ frame.op = "generate_fake_value"
    /\ frame.config = Some(D("min_int", Some(2)) \o D("max_int", Some(5)))
    /\ result.value = Value("int", 5)
    /\ DEFAULT_FILE_RANDOM_CONFIG = FileRandomDefaults

HeadersLooping == frame.op = "generate_fake_headers" /\ pc \in {"outer", "inner"}

\* C15: every call of generate_fake_headers terminates under fair draws from
\* the finite vocabulary: a call that entered the loop returns, also when
\* total_columns exceeds the number of distinct words
C15_HeadersTerminate == HeadersLooping ~> HeadersDone

====
